---- MODULE Spec2Model ----
(***************************************************************************)
(* Model of consulta-tjms: the unified case lookup of server.js over the   *)
(* three scrapers (datajud.js, esaj.js, eproc.js).                         *)
(*                                                                         *)
(* Representation of JavaScript values:                                    *)
(*   - a string whose characters matter (an identifier, a scraped text, a  *)
(*     field value) is a sequence of one-character strings; "" is << >>;   *)
(*   - a text that the code only searches with String.includes (an error   *)
(*     message, a page's notice) is a sequence of words, and includes is   *)
(*     decided word by word;                                               *)
(*   - null, undefined, errors, responses, pages and records are records   *)
(*     tagged by the field t.                                              *)
(***************************************************************************)
EXTENDS Integers, Sequences, FiniteSets, TLC

VARIABLES
    numero,      \* req.body.numero of the request being served
    task,        \* the five source calls: position and local variables of each
    ambos,       \* the promises of esaj/eproc consultarAmbosGraus
    resposta,    \* the HTTP response of the handler (or Pendente)
    hist,        \* SpecAdapter: per fetchComRetry call of the adapter, the outcomes of its attempts
    dadosDatajud, dadosEsaj, dadosEproc,   \* arguments of mergeResultados
    unificado,   \* value returned by mergeResultados
    antes        \* the arguments as they were when mergeResultados was called

vars == <<numero, task, ambos, resposta, hist, dadosDatajud, dadosEsaj, dadosEproc, unificado, antes>>

----------------------------------------------------------------------------
(* JavaScript values *)

Null == [t |-> "null"]
Undefined == [t |-> "undefined"]
Pendente == [t |-> "pending"]

Erro(name, message) == [t |-> "error", name |-> name, message |-> message]

\* String.prototype.includes on a text kept as a sequence of words
Includes(texto, palavra) == \E k \in 1..Len(texto) : texto[k] = palavra

Digitos == {"0", "1", "2", "3", "4", "5", "6", "7", "8", "9"}
IsDigito(c) == c \in Digitos
Brancos == {" ", "\n", "\t"}

\* numero.replace(/[^0-9]/g, '')
SoDigitos(s) == SelectSeq(s, IsDigito)

RECURSIVE Colapsar(_)
\* texto.replace(/\s+/g, ' '): every run of white space becomes one space
Colapsar(s) ==
    IF s = << >> THEN << >>
    ELSE IF Head(s) \in Brancos
         THEN IF Len(s) > 1 /\ s[2] \in Brancos
              THEN Colapsar(Tail(s))
              ELSE <<" ">> \o Colapsar(Tail(s))
         ELSE <<Head(s)>> \o Colapsar(Tail(s))

\* String.prototype.trim
Trim(s) ==
    LET naoBrancos == {k \in 1..Len(s) : s[k] \notin Brancos}
    IN IF naoBrancos = {} THEN << >>
       ELSE SubSeq(s, CHOOSE a \in naoBrancos : \A b \in naoBrancos : a <= b,
                      CHOOSE a \in naoBrancos : \A b \in naoBrancos : a >= b)

limpar(texto) == IF texto = << >> THEN << >> ELSE Trim(Colapsar(texto))

----------------------------------------------------------------------------
(* Identifier *)

\* parseNumeroCNJ whose dashed form leaves the segment J out
parseNumeroCNJSemJ(num) ==
    LET limpo == SoDigitos(num)
    IN IF Len(limpo) # 20
       THEN Erro("Error", <<"Numero", "do", "processo", "invalido:", "esperado", "20", "digitos">>)
       ELSE [t |-> "cnj",
             numeroDigitoAno |-> SubSeq(limpo, 1, 7) \o <<"-">> \o SubSeq(limpo, 8, 9)
                                 \o <<".">> \o SubSeq(limpo, 10, 13),
             foro |-> SubSeq(limpo, 17, 20),
             completo |-> SubSeq(limpo, 1, 7) \o <<"-">> \o SubSeq(limpo, 8, 9)
                          \o <<".">> \o SubSeq(limpo, 10, 13)
                          \o <<".">> \o SubSeq(limpo, 15, 16) \o <<".">> \o SubSeq(limpo, 17, 20),
             j |-> SubSeq(limpo, 14, 14),
             tr |-> SubSeq(limpo, 15, 16)]

parseNumeroCNJ(num) ==
    LET limpo == SoDigitos(num)
    IN IF Len(limpo) # 20
       THEN Erro("Error", <<"Numero", "do", "processo", "invalido:", "esperado", "20", "digitos">>)
       ELSE [t |-> "cnj",
             numeroDigitoAno |-> SubSeq(limpo, 1, 7) \o <<"-">> \o SubSeq(limpo, 8, 9)
                                 \o <<".">> \o SubSeq(limpo, 10, 13),
             foro |-> SubSeq(limpo, 17, 20),
             completo |-> SubSeq(limpo, 1, 7) \o <<"-">> \o SubSeq(limpo, 8, 9)
                          \o <<".">> \o SubSeq(limpo, 10, 13) \o <<".">> \o SubSeq(limpo, 14, 14)
                          \o <<".">> \o SubSeq(limpo, 15, 16) \o <<".">> \o SubSeq(limpo, 17, 20),
             j |-> SubSeq(limpo, 14, 14),
             tr |-> SubSeq(limpo, 15, 16)]

formatarNumeroEproc(numeroCNJ) ==
    LET n == SoDigitos(numeroCNJ)
    IN IF Len(n) # 20
       THEN Erro("Error", <<"Numero", "invalido:", "esperado", "20", "digitos">>)
       ELSE [t |-> "formatado",
             completo |-> SubSeq(n, 1, 7) \o <<"-">> \o SubSeq(n, 8, 9) \o <<".">> \o SubSeq(n, 10, 13)
                          \o <<".">> \o SubSeq(n, 14, 14) \o <<".">> \o SubSeq(n, 15, 16)
                          \o <<".">> \o SubSeq(n, 17, 20)]

----------------------------------------------------------------------------
(* Portals, their budgets and what the network can answer *)

MAX_RETRIES_ESAJ == 3
TIMEOUT_MS_ESAJ == 15000
MAX_RETRIES_EPROC == 2
TIMEOUT_MS_EPROC == 12000

MAX_RETRIES(portal) == IF portal = "esaj" THEN MAX_RETRIES_ESAJ ELSE MAX_RETRIES_EPROC
TIMEOUT_MS(portal) == IF portal = "esaj" THEN TIMEOUT_MS_ESAJ ELSE TIMEOUT_MS_EPROC

\* A node-fetch Response: status line and body
Resposta(status, statusText, body) ==
    [t |-> "resp", status |-> status, statusText |-> statusText, body |-> body]

\* Response.ok
RespOk(resp) == resp.status >= 200 /\ resp.status <= 299

\* Non-ok answers of a server, with the standard reason phrases
RespostasErro ==
    { Resposta(404, <<"Not", "Found">>, Null),
      Resposta(408, <<"Request", "Timeout">>, Null),
      Resposta(500, <<"Internal", "Server", "Error">>, Null),
      Resposta(504, <<"Gateway", "Timeout">>, Null) }

\* Rejections of fetch(): node-fetch's FetchError for a system error, and the
\* AbortError raised when the attempt's timer fires controller.abort()
FalhasTransporte ==
    { Erro("FetchError", <<"request", "failed,", "reason:", "getaddrinfo", "ENOTFOUND">>),
      Erro("FetchError", <<"request", "failed,", "reason:", "connect", "ECONNREFUSED">>),
      Erro("FetchError", <<"request", "failed,", "reason:", "read", "ECONNRESET">>) }

Abortado == Erro("AbortError", <<"The", "user", "aborted", "a", "request.">>)

FalhasRede == RespostasErro \cup FalhasTransporte \cup {Abortado}

----------------------------------------------------------------------------
(* fetchComRetry: one turn of its loop, for the attempt of index i that ended
   with `o` (a Response, or the error fetch() rejected with).  The result says
   how the call goes on: "return" a value, "throw" an error, or "sleep" the
   backoff of 1000 * (i + 1) ms before the next turn. *)

\* fetchCatch with the budget test off by one: the last attempt is not recognised
fetchCatchOffByOne(portal, retries, i, err) ==
    IF i = retries
    THEN [next |-> "throw", val |-> err, ms |-> 0]
    ELSE [next |-> "sleep", val |-> err, ms |-> 1000 * (i + 1)]

\* the catch block of the loop
fetchCatch(portal, retries, i, err) ==
    LET e == IF err.name = "AbortError"
             THEN [err EXCEPT !.message = <<"Timeout", "de", ToString(TIMEOUT_MS(portal)), "ms", "excedido">>]
             ELSE err
    IN IF i = retries - 1
       THEN [next |-> "throw", val |-> e, ms |-> 0]
       ELSE [next |-> "sleep", val |-> e, ms |-> 1000 * (i + 1)]

fetchComRetry(portal, retries, i, o) ==
    IF o.t = "resp"
    THEN IF RespOk(o)
         THEN [next |-> "return", val |-> o, ms |-> 0]
         ELSE IF o.status >= 500 /\ i < retries - 1
              THEN [next |-> "sleep", val |-> o, ms |-> 1000 * (i + 1)]
              \* the throw is inside the try block: the loop's own catch takes it
              ELSE fetchCatch(portal, retries, i,
                              Erro("Error", <<"HTTP", ToString(o.status)>> \o o.statusText))
    ELSE fetchCatch(portal, retries, i, o)

\* the for statement: after the backoff, i++ and the test i < retries
fetchProximo(retries, i) ==
    IF i + 1 < retries THEN [next |-> "fetch", i |-> i + 1] ELSE [next |-> "return", i |-> i + 1]

----------------------------------------------------------------------------
(* Extraction.  A page is what the selectors of the parser find in it:
   el maps each selector that matches to the raw text of the element,
   table rows carry the raw text of their cells. *)

\* a || b on strings
Ou(a, b) == IF a # << >> THEN a ELSE b

\* $(sel).text(): "" when nothing matches
Texto(html, sel) == IF sel \in DOMAIN html.el THEN html.el[sel] ELSE << >>

\* $(sel).length > 0
Existe(html, sel) == sel \in DOMAIN html.el

\* tipo.replace(/:$/, '').trim()
SemDoisPontos(s) ==
    IF s # << >> /\ s[Len(s)] = ":" THEN Trim(SubSeq(s, 1, Len(s) - 1)) ELSE Trim(s)

RECURSIVE esajPartes(_)
\* rows of #tableTodasPartes / #tablePartesPrincipais (cells without counsel markers)
esajPartes(rows) ==
    IF rows = << >> THEN << >>
    ELSE LET tipo == limpar(Head(rows).tipo)
             nomeCompleto == limpar(Head(rows).nome)
             resto == esajPartes(Tail(rows))
         IN IF tipo = << >> /\ nomeCompleto = << >> THEN resto
            ELSE <<[tipo |-> SemDoisPontos(tipo), nome |-> nomeCompleto, advogados |-> << >>]>> \o resto

RECURSIVE esajPartesAlt(_)
\* rows of .secaoFormBody / #partesProcesso, read when the table gave no party
esajPartesAlt(rows) ==
    IF rows = << >> THEN << >>
    ELSE LET tipo == limpar(Head(rows).tipo)
             nome == limpar(Head(rows).nome)
             resto == esajPartesAlt(Tail(rows))
         IN IF tipo # << >> \/ nome # << >>
            THEN <<[tipo |-> tipo, nome |-> nome, advogados |-> << >>]>> \o resto
            ELSE resto

RECURSIVE esajLinhasMovs(_)
\* rows of #tabelaTodasMovimentacoes / #tabelaUltimasMovimentacoes
esajLinhasMovs(rows) ==
    IF rows = << >> THEN << >>
    ELSE LET data == limpar(Head(rows).data)
             descricao == limpar(Head(rows).descricao)
             resto == esajLinhasMovs(Tail(rows))
         IN IF data # << >> \/ descricao # << >>
            THEN <<[data |-> data, descricao |-> descricao]>> \o resto
            ELSE resto

parseProcessoHTML(html, grau) ==
    IF html.mensagemRetorno # << >> /\ Includes(html.mensagemRetorno, "nao encontrado")
    THEN Null
    ELSE IF html.linkProcesso # << >> /\ ~Existe(html, "#classeProcesso") /\ ~Existe(html, "#labelClasse")
    THEN [t |-> "redirect", redirect |-> html.linkProcesso]
    ELSE LET tabela == esajPartes(html.partes)
         IN [t |-> "rec",
             fonte |-> "esaj",
             grau |-> grau,
             classe |-> limpar(Ou(Texto(html, "#classeProcesso"),
                               Ou(Texto(html, "#labelClasse"), Texto(html, "span[id*=classe]")))),
             area |-> limpar(Ou(Texto(html, "#areaProcesso span"),
                             Ou(Texto(html, "#labelArea"), Texto(html, "div#areaProcesso")))),
             assunto |-> limpar(Ou(Texto(html, "#assuntoProcesso"),
                                Ou(Texto(html, "#labelAssunto"), Texto(html, "span[id*=assunto]")))),
             distribuicao |-> limpar(Ou(Texto(html, "#dataHoraDistribuicaoProcesso"),
                                     Ou(Texto(html, "div#dataHoraDistribuicaoProcesso"),
                                        Texto(html, "#labelDistribuicao")))),
             juiz |-> limpar(Ou(Texto(html, "#juizProcesso"),
                             Ou(Texto(html, "span[id*=juiz]"), Texto(html, "#labelJuiz")))),
             valorAcao |-> limpar(Ou(Texto(html, "#valorAcaoProcesso"),
                                  Ou(Texto(html, "div#valorAcaoProcesso"), Texto(html, "#labelValor")))),
             numero |-> limpar(Ou(Texto(html, "#numeroProcesso"),
                               Ou(Texto(html, "span.unj-larger"), Texto(html, "h2.subtitle")))),
             partes |-> IF tabela # << >> THEN tabela ELSE esajPartesAlt(html.partesAlt),
             movimentacoes |-> esajLinhasMovs(html.movs)]

\* the empty eproc record parseEprocHTML starts from
eprocVazio(grau) ==
    [t |-> "rec", fonte |-> "eproc", grau |-> grau, classe |-> << >>, area |-> << >>,
     assunto |-> << >>, distribuicao |-> << >>, juiz |-> << >>, orgaoJulgador |-> << >>,
     situacao |-> << >>, partes |-> << >>, movimentacoes |-> << >>]

\* Abordagem 1, one label: resultado.f = valor || resultado.f for every field
\* whose name the label text includes
eprocLabel(r, lab) ==
    LET valor == limpar(lab.valor)
        tem(p) == Includes(lab.label, p)
    IN [r EXCEPT
          !.classe = IF tem("classe") THEN Ou(valor, @) ELSE @,
          !.assunto = IF tem("assunto") THEN Ou(valor, @) ELSE @,
          !.area = IF tem("área") \/ tem("area") THEN Ou(valor, @) ELSE @,
          !.juiz = IF tem("juiz") \/ tem("magistrado") THEN Ou(valor, @) ELSE @,
          !.orgaoJulgador = IF tem("órgão julgador") \/ tem("orgao julgador") THEN Ou(valor, @) ELSE @,
          !.distribuicao = IF tem("distribuição") \/ tem("distribuicao") \/ tem("autuação")
                           THEN Ou(valor, @) ELSE @,
          !.situacao = IF tem("situação") \/ tem("situacao") THEN Ou(valor, @) ELSE @]

RECURSIVE eprocLabels(_, _)
eprocLabels(r, labels) ==
    IF labels = << >> THEN r ELSE eprocLabels(eprocLabel(r, Head(labels)), Tail(labels))

\* Abordagem 2, one row "Label: Valor": chave is the lower-cased label the
\* regular expression matched ("" when the row does not match)
eprocLinha(r, linha) ==
    LET val == limpar(linha.valor)
        key == linha.chave
    IN IF key \notin {"classe", "assunto", "área", "juiz", "órgão julgador",
                      "distribuição", "autuação", "situação"} \/ val = << >>
       THEN r
       ELSE [r EXCEPT
               !.classe = IF key = "classe" /\ @ = << >> THEN val ELSE @,
               !.assunto = IF key = "assunto" /\ @ = << >> THEN val ELSE @,
               !.area = IF key = "área" /\ @ = << >> THEN val ELSE @,
               !.juiz = IF key = "juiz" /\ @ = << >> THEN val ELSE @,
               !.orgaoJulgador = IF key = "órgão julgador" /\ @ = << >> THEN val ELSE @,
               !.distribuicao = IF key \in {"distribuição", "autuação"} /\ @ = << >> THEN val ELSE @,
               !.situacao = IF key = "situação" /\ @ = << >> THEN val ELSE @]

RECURSIVE eprocLinhas(_, _)
eprocLinhas(r, linhas) ==
    IF linhas = << >> THEN r ELSE eprocLinhas(eprocLinha(r, Head(linhas)), Tail(linhas))

RECURSIVE eprocPartes(_)
\* rows of table.infraTable / #divPartes / #tblPartes; th marks a header row
eprocPartes(rows) ==
    IF rows = << >> THEN << >>
    ELSE LET row == Head(rows)
             resto == eprocPartes(Tail(rows))
         IN IF row.th \/ Len(row.cols) < 2 THEN resto
            ELSE LET tipo == limpar(row.cols[1])
                     nome == limpar(row.cols[2])
                     advogado == IF Len(row.cols) >= 3 THEN limpar(row.cols[3]) ELSE << >>
                 IN IF tipo # << >> \/ nome # << >>
                    THEN <<[tipo |-> tipo, nome |-> nome,
                            advogados |-> IF advogado # << >>
                                          THEN <<[nome |-> advogado, oab |-> << >>]>> ELSE << >>]>>
                         \o resto
                    ELSE resto

Travessao == <<" ", "-", " ">>

RECURSIVE eprocEventos(_)
\* rows of table#tblEventos / #divEventos / #tabelaEventos
eprocEventos(rows) ==
    IF rows = << >> THEN << >>
    ELSE LET row == Head(rows)
             resto == eprocEventos(Tail(rows))
         IN IF row.th \/ Len(row.cols) < 3 THEN resto
            ELSE LET data == IF Len(row.cols) >= 4 THEN limpar(row.cols[2]) ELSE limpar(row.cols[1])
                     evento == IF Len(row.cols) >= 4 THEN limpar(row.cols[3]) ELSE limpar(row.cols[2])
                     extra == IF Len(row.cols) >= 4 THEN limpar(row.cols[4]) ELSE limpar(row.cols[3])
                     descricao == IF extra # << >> THEN evento \o Travessao \o extra ELSE evento
                 IN IF data # << >> \/ descricao # << >>
                    THEN <<[data |-> data, descricao |-> descricao]>> \o resto
                    ELSE resto

parseEprocHTML(html, grau) ==
    IF html.erroMsg # << >> /\ (Includes(html.erroMsg, "nao encontrado")
                                \/ Includes(html.erroMsg, "Nenhum processo")
                                \/ Includes(html.erroMsg, "invalido"))
    THEN Null
    ELSE IF html.login THEN Null
    ELSE LET capa == eprocLinhas(eprocLabels(eprocVazio(grau), html.labels), html.linhas)
             resultado == [capa EXCEPT !.partes = eprocPartes(html.partes),
                                       !.movimentacoes = eprocEventos(html.eventos)]
             temDados == resultado.classe # << >> \/ resultado.assunto # << >>
                         \/ resultado.partes # << >> \/ resultado.movimentacoes # << >>
         IN IF temDados THEN resultado ELSE Null

----------------------------------------------------------------------------
(* Source calls.  A call is at "fetch" (an attempt is in flight), "sleep" (the
   backoff), "text" (fetchComRetry returned, the body is being read), or has
   settled: "fulfilled" or "rejected", with its value or reason in val. *)

Leaves == {"esaj1g", "esaj2g", "eproc1g", "eproc2g"}
Sources == Leaves \cup {"datajud"}
Tasks == Sources \cup {"status"}

Portal(t) == IF t \in {"esaj1g", "esaj2g"} THEN "esaj" ELSE "eproc"
\* the instance tag ('1o Grau' / '2o Grau'), abbreviated to its digit
Grau(t) == IF t \in {"esaj1g", "eproc1g"} THEN <<"1">> ELSE <<"2">>

Idle == [pc |-> "idle", i |-> 0, hop |-> 0, retries |-> 0, val |-> Null]
Fulfilled(v) == [pc |-> "fulfilled", i |-> 0, hop |-> 0, retries |-> 0, val |-> v]
Rejected(e) == [pc |-> "rejected", i |-> 0, hop |-> 0, retries |-> 0, val |-> e]
Fetching(hop, retries) == [pc |-> "fetch", i |-> 0, hop |-> hop, retries |-> retries, val |-> Null]

Settled(tk) == tk.pc \in {"fulfilled", "rejected"}

\* resp.text() of a value that is no Response
TypeError == Erro("TypeError", <<"Cannot", "read", "properties", "of", "undefined">>)

\* esajInicio that builds the search URL without checking the digit count
esajInicioSemValidar(num) == Fetching(1, MAX_RETRIES("esaj"))

\* esaj consultarPrimeiroGrau / consultarSegundoGrau up to the first await
esajInicio(num) ==
    LET parsed == parseNumeroCNJ(num)
    IN IF parsed.t = "error" THEN Rejected(parsed) ELSE Fetching(1, MAX_RETRIES("esaj"))

\* ... when fetchComRetry throws: no handler, the call rejects
esajCatch(err) == Rejected(err)

\* ... after the page number `hop` was read: follow a redirect once, else return
esajPagina(hop, resp, grau) ==
    IF resp.t # "resp" THEN Rejected(TypeError)
    ELSE LET resultado == parseProcessoHTML(resp.body, grau)
         IN IF hop = 1 /\ resultado.t = "redirect"
            THEN Fetching(2, MAX_RETRIES("esaj"))
            ELSE Fulfilled(resultado)

\* eproc consultarPrimeiroGrau / consultarSegundoGrau up to the first await
eprocInicio(num) ==
    LET numeroFormatado == formatarNumeroEproc(num)
    IN IF numeroFormatado.t = "error" THEN Rejected(numeroFormatado)
       ELSE Fetching(1, MAX_RETRIES("eproc"))

\* eprocCatch without the downgrade: every error is re-thrown
eprocCatchRethrow(err) == Rejected(err)

\* ... its catch block
eprocCatch(err) ==
    IF Includes(err.message, "ENOTFOUND") \/ Includes(err.message, "ECONNREFUSED")
       \/ Includes(err.message, "Timeout")
    THEN Fulfilled(Null)
    ELSE Rejected(err)

\* ... after the page was read
eprocPagina(resp, grau) ==
    IF resp.t # "resp" THEN eprocCatch(TypeError)
    ELSE Fulfilled(parseEprocHTML(resp.body, grau))

Bool(b) == [t |-> "bool", v |-> b]

\* eproc verificarDisponibilidade: fetchComRetry(url, {}, 1), resp.ok or false
statusInicio == Fetching(1, 1)
statusCatch(err) == Fulfilled(Bool(FALSE))
statusPagina(resp) == IF resp.t # "resp" THEN Fulfilled(Bool(FALSE)) ELSE Fulfilled(Bool(RespOk(resp)))

\* what the caller of fetchComRetry does when it throws / returns
AoLancar(t, err) ==
    IF t = "status" THEN statusCatch(err)
    ELSE IF Portal(t) = "esaj" THEN esajCatch(err) ELSE eprocCatch(err)

AoRetornar(t, tk) ==
    IF t = "status" THEN statusPagina(tk.val)
    ELSE IF Portal(t) = "esaj" THEN esajPagina(tk.hop, tk.val, Grau(t))
    ELSE eprocPagina(tk.val, Grau(t))

\* One network attempt of call t ends with outcome o
Attempt(t, o) ==
    /\ t \in Leaves \cup {"status"}
    /\ task[t].pc = "fetch"
    /\ LET tk == task[t]
           r == fetchComRetry(Portal(t), tk.retries, tk.i, o)
       IN task' = [task EXCEPT ![t] =
                     IF r.next = "return" THEN [tk EXCEPT !.pc = "text", !.i = 0, !.val = r.val]
                     ELSE IF r.next = "sleep" THEN [tk EXCEPT !.pc = "sleep"]
                     ELSE AoLancar(t, r.val)]

\* The backoff of call t ends
Wake(t) ==
    /\ task[t].pc = "sleep"
    /\ LET tk == task[t]
           r == fetchProximo(tk.retries, tk.i)
       IN task' = [task EXCEPT ![t] =
                     IF r.next = "fetch" THEN [tk EXCEPT !.pc = "fetch", !.i = r.i]
                     \* the loop ends without a return: the call yields undefined
                     ELSE [tk EXCEPT !.pc = "text", !.i = 0, !.val = Undefined]]

\* The body of the response fetchComRetry returned is read and handled
ReadPage(t) ==
    /\ task[t].pc = "text"
    /\ task' = [task EXCEPT ![t] = AoRetornar(t, task[t])]

----------------------------------------------------------------------------
(* Merge (server.js).  Fields of the unified record that only copy a field of
   the DataJud hit (classeCodigoCNJ, formato, nivelSigilo,
   dataUltimaAtualizacao) are left out. *)

\* obj.f where obj may be {} or lack the field: "" stands for undefined
Campo(obj, f) == IF f \in DOMAIN obj THEN obj[f] ELSE << >>

\* x || {} for a record or null
OuVazio(x) == IF x.t = "null" THEN [t |-> "vazio"] ELSE x

DigitoValor(c) ==
    CASE c = "0" -> 0 [] c = "1" -> 1 [] c = "2" -> 2 [] c = "3" -> 3 [] c = "4" -> 4
      [] c = "5" -> 5 [] c = "6" -> 6 [] c = "7" -> 7 [] c = "8" -> 8 [] c = "9" -> 9

\* Whether new Date(dataHora || 0) is a valid date.  The dates of the model are
\* the ISO year-only strings "YYYY"; any other non-empty string is unparseable.
DataValida(dataHora) ==
    \/ dataHora = << >>
    \/ Len(dataHora) = 4 /\ \A k \in 1..4 : IsDigito(dataHora[k])

\* Its time value, in years since 1970 (0 for a missing date: new Date(0))
DataValor(dataHora) ==
    IF dataHora = << >> THEN 0
    ELSE 1000 * DigitoValor(dataHora[1]) + 100 * DigitoValor(dataHora[2])
         + 10 * DigitoValor(dataHora[3]) + DigitoValor(dataHora[4]) - 1970

\* (a, b) => new Date(b.dataHora || 0) - new Date(a.dataHora || 0), as
\* Array.prototype.sort reads it: a NaN result counts as 0
Comparar(a, b) ==
    IF DataValida(a.dataHora) /\ DataValida(b.dataHora)
    THEN DataValor(b.dataHora) - DataValor(a.dataHora)
    ELSE 0

(* Array.prototype.sort of V8 for fewer than 64 elements: the leading run is
   found (and reversed when strictly descending), then every later element is
   placed by binary insertion. *)
RECURSIVE RunLength(_, _, _)
\* length of the run that starts the array, idx being the next index to look at
RunLength(a, idx, descending) ==
    IF idx > Len(a) THEN Len(a)
    ELSE LET order == Comparar(a[idx], a[idx - 1])
         IN IF (descending /\ order >= 0) \/ (~descending /\ order < 0)
            THEN idx - 1
            ELSE RunLength(a, idx + 1, descending)

Reverse(a) == [k \in 1..Len(a) |-> a[Len(a) + 1 - k]]

RECURSIVE BinarySearch(_, _, _, _)
\* the insertion point of pivot in a[left+1 .. right] (0-based left, right)
BinarySearch(a, pivot, left, right) ==
    IF left >= right THEN left
    ELSE LET mid == left + ((right - left) \div 2)
         IN IF Comparar(pivot, a[mid + 1]) < 0
            THEN BinarySearch(a, pivot, left, mid)
            ELSE BinarySearch(a, pivot, mid + 1, right)

RECURSIVE BinaryInsertionSort(_, _)
\* a[1..start] is sorted; insert a[start+1], a[start+2], ...
BinaryInsertionSort(a, start) ==
    IF start >= Len(a) THEN a
    ELSE LET pivot == a[start + 1]
             left == BinarySearch(a, pivot, 0, start)
             b == SubSeq(a, 1, left) \o <<pivot>> \o SubSeq(a, left + 1, start)
                  \o SubSeq(a, start + 2, Len(a))
         IN BinaryInsertionSort(b, start + 1)

Sort(a) ==
    IF Len(a) < 2 THEN a
    ELSE LET descending == Comparar(a[2], a[1]) < 0
             n == RunLength(a, 3, descending)
             b == IF descending THEN Reverse(SubSeq(a, 1, n)) \o SubSeq(a, n + 1, Len(a)) ELSE a
         IN BinaryInsertionSort(b, n)

\* one element of the list mergeMovs builds from the DataJud movements
movDatajud(m) ==
    [data |-> m.dataHora,
     descricao |-> Ou(m.nome, m.codigo),
     complementos |-> SelectSeq(m.complementosTabelados, LAMBDA c : c # << >>),
     fonte |-> "datajud"]

\* { ...m, complementos: [], fonte } for a scraped movement
movPortal(m, fonte) ==
    [data |-> m.data, descricao |-> m.descricao, complementos |-> << >>, fonte |-> fonte]

\* mergeMovs that appends the scraped movements to the DataJud ones
mergeMovsConcat(datajudMovs, esajMovs, eprocMovs) ==
    LET ordenados == Sort(datajudMovs)
    IN [k \in 1..Len(ordenados) |-> movDatajud(ordenados[k])]
       \o [k \in 1..Len(esajMovs) |-> movPortal(esajMovs[k], "esaj")]
       \o [k \in 1..Len(eprocMovs) |-> movPortal(eprocMovs[k], "eproc")]

mergeMovs(datajudMovs, esajMovs, eprocMovs) ==
    IF Len(datajudMovs) > 0
    THEN LET ordenados == Sort(datajudMovs)
         IN [k \in 1..Len(ordenados) |-> movDatajud(ordenados[k])]
    ELSE IF Len(esajMovs) > 0
    THEN [k \in 1..Len(esajMovs) |-> movPortal(esajMovs[k], "esaj")]
    ELSE IF Len(eprocMovs) > 0
    THEN [k \in 1..Len(eprocMovs) |-> movPortal(eprocMovs[k], "eproc")]
    ELSE << >>

\* datajudMovs.sort(...) sorts proc.movimentos itself: the hit after the merge
movimentosAposMerge(datajudMovs) == Sort(datajudMovs)

\* primeiroNaoVazio with the two first-instance lists tried in the other order
primeiroNaoVazioEprocFirst(l1, l2, l3, l4) ==
    IF Len(l2) > 0 THEN l2
    ELSE IF Len(l1) > 0 THEN l1
    ELSE IF Len(l3) > 0 THEN l3
    ELSE IF Len(l4) > 0 THEN l4
    ELSE << >>

primeiroNaoVazio(l1, l2, l3, l4) ==
    IF Len(l1) > 0 THEN l1
    ELSE IF Len(l2) > 0 THEN l2
    ELSE IF Len(l3) > 0 THEN l3
    ELSE IF Len(l4) > 0 THEN l4
    ELSE << >>

\* dadosDatajud?.processos?.[0] || {}
primeiroProcesso(dj) ==
    IF dj.t = "datajud" /\ Len(dj.processos) > 0 THEN dj.processos[1] ELSE [t |-> "vazio"]

\* dados?.primeiroGrau || {} and dados?.segundoGrau || {}
GrauDe(dados, g) == IF dados.t = "null" THEN [t |-> "vazio"] ELSE OuVazio(dados[g])

\* !!x for an object or null
Presente(x) == x.t # "null"

\* the precedence of each classification field of the unified record
unificadoClasse(proc, e1, ep1) ==
    Ou(Campo(Campo(proc, "classe"), "nome"), Ou(Campo(e1, "classe"), Campo(ep1, "classe")))

\* area with a default written in when neither portal gives one
unificadoAreaPadrao(proc, e1, ep1) ==
    Ou(Campo(e1, "area"), Ou(Campo(ep1, "area"), <<"C", "i", "v", "e", "l">>))

unificadoArea(proc, e1, ep1) == Ou(Campo(e1, "area"), Campo(ep1, "area"))

\* proc.assuntos?.[0]?.nome
primeiroAssunto(proc) ==
    IF Len(Campo(proc, "assuntos")) > 0 THEN proc.assuntos[1].nome ELSE << >>

\* assuntoPrincipal with the DataJud subject first
assuntoPrincipalApiFirst(proc, e1, ep1) ==
    Ou(primeiroAssunto(proc), Ou(Campo(e1, "assunto"), Campo(ep1, "assunto")))

unificadoAssuntoPrincipal(proc, e1, ep1) ==
    Ou(Campo(e1, "assunto"), Ou(Campo(ep1, "assunto"), primeiroAssunto(proc)))

unificadoOrgaoJulgador(proc, e1, ep1) ==
    Ou(Campo(Campo(proc, "orgaoJulgador"), "nome"), Campo(ep1, "orgaoJulgador"))

unificadoDistribuicao(proc, e1, ep1) ==
    Ou(Campo(e1, "distribuicao"), Ou(Campo(ep1, "distribuicao"), Campo(proc, "dataAjuizamento")))

\* the second-instance sub-record built whatever the second-instance results hold
segundoGrauSempre(e2, ep2) ==
    [t |-> "segundoGrau",
     classe |-> Ou(Campo(e2, "classe"), Campo(ep2, "classe")),
     assunto |-> Ou(Campo(e2, "assunto"), Campo(ep2, "assunto")),
     movimentacoes |-> IF "movimentacoes" \in DOMAIN e2 THEN e2.movimentacoes
                       ELSE Campo(ep2, "movimentacoes"),
     partes |-> IF "partes" \in DOMAIN e2 THEN e2.partes ELSE Campo(ep2, "partes")]

\* segundoGrau: (e2.classe || ep2.classe) ? {...} : null
unificadoSegundoGrau(e2, ep2) ==
    IF Ou(Campo(e2, "classe"), Campo(ep2, "classe")) # << >>
    THEN [t |-> "segundoGrau",
          classe |-> Ou(Campo(e2, "classe"), Campo(ep2, "classe")),
          assunto |-> Ou(Campo(e2, "assunto"), Campo(ep2, "assunto")),
          \* an array, even empty, is truthy
          movimentacoes |-> IF "movimentacoes" \in DOMAIN e2 THEN e2.movimentacoes
                            ELSE Campo(ep2, "movimentacoes"),
          partes |-> IF "partes" \in DOMAIN e2 THEN e2.partes ELSE Campo(ep2, "partes")]
    ELSE Null

mergeResultados(dj, esaj, eproc) ==
    LET proc == primeiroProcesso(dj)
        e1 == GrauDe(esaj, "primeiroGrau")
        e2 == GrauDe(esaj, "segundoGrau")
        ep1 == GrauDe(eproc, "primeiroGrau")
        ep2 == GrauDe(eproc, "segundoGrau")
        assuntos == Campo(proc, "assuntos")
    IN [t |-> "unificado",
        numero |-> Campo(proc, "numeroProcesso"),
        classe |-> unificadoClasse(proc, e1, ep1),
        area |-> unificadoArea(proc, e1, ep1),
        assuntos |-> [k \in 1..Len(assuntos) |-> Ou(assuntos[k].nome, assuntos[k].codigo)],
        assuntoPrincipal |-> unificadoAssuntoPrincipal(proc, e1, ep1),
        orgaoJulgador |-> unificadoOrgaoJulgador(proc, e1, ep1),
        juiz |-> Ou(Campo(e1, "juiz"), Campo(ep1, "juiz")),
        distribuicao |-> unificadoDistribuicao(proc, e1, ep1),
        valorAcao |-> Campo(e1, "valorAcao"),
        grau |-> Ou(Campo(proc, "grau"), Ou(Campo(e1, "grau"), Campo(ep1, "grau"))),
        situacao |-> Campo(ep1, "situacao"),
        partes |-> primeiroNaoVazio(Campo(e1, "partes"), Campo(ep1, "partes"),
                                    Campo(e2, "partes"), Campo(ep2, "partes")),
        movimentacoes |-> mergeMovs(Campo(proc, "movimentos"), Campo(e1, "movimentacoes"),
                                    Campo(ep1, "movimentacoes")),
        fontes |-> [datajud |-> dj.t = "datajud" /\ dj.total # 0,
                    esaj1g |-> esaj.t # "null" /\ Presente(esaj.primeiroGrau),
                    esaj2g |-> esaj.t # "null" /\ Presente(esaj.segundoGrau),
                    eproc1g |-> eproc.t # "null" /\ Presente(eproc.primeiroGrau),
                    eproc2g |-> eproc.t # "null" /\ Presente(eproc.segundoGrau)],
        segundoGrau |-> unificadoSegundoGrau(e2, ep2)]

\* dadosDatajud as mergeResultados leaves it: the movements of the first hit sorted
datajudAposMerge(dj) ==
    IF dj.t = "datajud" /\ Len(dj.processos) > 0 /\ Len(dj.processos[1].movimentos) > 0
    THEN [dj EXCEPT !.processos[1].movimentos = movimentosAposMerge(@)]
    ELSE dj

----------------------------------------------------------------------------
(* The requests and the pages of the model *)

\* "0800123-45.2023.8.12.0001"
Numero20 ==
    <<"0", "8", "0", "0", "1", "2", "3", "-", "4", "5", ".", "2", "0", "2", "3", ".",
      "8", ".", "1", "2", ".", "0", "0", "0", "1">>
\* "0800123-45.20": 11 digits
Numero11 == SubSeq(Numero20, 1, 13)
\* "0800123-45": 9 digits
Numero9 == SubSeq(Numero20, 1, 10)

Numeros == {<< >>, Numero9, Numero11, Numero20}

SemElementos == [sel \in {} |-> << >>]

PaginaEsaj(mensagem, link, el, partes, movs) ==
    [t |-> "html", mensagemRetorno |-> mensagem, linkProcesso |-> link, el |-> el,
     partes |-> partes, partesAlt |-> << >>, movs |-> movs]

EsajNaoEncontrado ==
    PaginaEsaj(<<"Processo", "nao encontrado">>, << >>, SemElementos, << >>, << >>)
\* a result list: a link and none of the detail markers
EsajLista == PaginaEsaj(<< >>, <<"s", "?", "1">>, SemElementos, << >>, << >>)
EsajDetalhe ==
    PaginaEsaj(<< >>, << >>,
               ("#classeProcesso" :> <<" ", "C", "e">>) @@ ("#assuntoProcesso" :> <<"S", "e">>)
               @@ ("#dataHoraDistribuicaoProcesso" :> <<"D", "e">>),
               <<[tipo |-> <<"A", ":">>, nome |-> <<"N", "e">>]>>,
               <<[data |-> <<"1">>, descricao |-> <<"x">>], [data |-> <<"2">>, descricao |-> <<"y">>]>>)

EsajPaginas == {EsajNaoEncontrado, EsajLista, EsajDetalhe}

PaginaEproc(erroMsg, login, labels, partes, eventos) ==
    [t |-> "html", erroMsg |-> erroMsg, login |-> login, labels |-> labels, linhas |-> << >>,
     partes |-> partes, eventos |-> eventos]

EprocAviso == PaginaEproc(<<"Nenhum processo">>, FALSE, << >>, << >>, << >>)
EprocLogin == PaginaEproc(<< >>, TRUE, << >>, << >>, << >>)
EprocDetalhe ==
    PaginaEproc(<< >>, FALSE,
                <<[label |-> <<"classe">>, valor |-> <<"C", "p">>],
                  [label |-> <<"orgao julgador">>, valor |-> <<"O", "p">>]>>,
                <<[th |-> FALSE, cols |-> <<<<"R">>, <<"N", "p">>>>]>>,
                <<[th |-> FALSE, cols |-> <<<<"3">>, <<"z">>, << >>>>]>>)

EprocPaginas == {EprocAviso, EprocLogin, EprocDetalhe}

Ok(body) == Resposta(200, <<"OK">>, body)

\* the pages an attempt of call t can bring
Paginas(t) ==
    IF t = "status" THEN {Ok(Null)}
    ELSE IF Portal(t) = "esaj" THEN {Ok(pg) : pg \in EsajPaginas}
    ELSE {Ok(pg) : pg \in EprocPaginas}

\* what an attempt of call t can end with
Rede(t) == FalhasRede \cup Paginas(t)

\* the failures of the unified query's runs: one of each class (a 4xx, a 5xx,
\* an unreachable host, a timeout)
FalhasConsulta ==
    { Resposta(404, <<"Not", "Found">>, Null),
      Resposta(504, <<"Gateway", "Timeout">>, Null),
      Erro("FetchError", <<"request", "failed,", "reason:", "getaddrinfo", "ENOTFOUND">>),
      Abortado }

RedeConsulta(t) == FalhasConsulta \cup Paginas(t)

(* DataJud *)

Movimento(dataHora, nome) ==
    [dataHora |-> dataHora, nome |-> nome, codigo |-> <<"0">>, complementosTabelados |-> << >>]

Ano2021 == <<"2", "0", "2", "1">>
Ano2022 == <<"2", "0", "2", "2">>
Ano2023 == <<"2", "0", "2", "3">>

Hit(classe, assuntos, orgao, ajuizamento, movimentos) ==
    [t |-> "hit", numeroProcesso |-> SoDigitos(Numero20), classe |-> [nome |-> classe, codigo |-> <<"7">>],
     assuntos |-> assuntos, orgaoJulgador |-> [nome |-> orgao], dataAjuizamento |-> ajuizamento,
     grau |-> <<"G", "1">>, movimentos |-> movimentos, fonte |-> "datajud"]

HitPadrao ==
    Hit(<<"C", "d">>, <<[nome |-> <<"S", "d">>, codigo |-> <<"9">>]>>, <<"O", "d">>, Ano2021,
        <<Movimento(Ano2021, <<"a">>), Movimento(Ano2023, <<"b">>)>>)

Json(total, hits) == [t |-> "json", total |-> total, hits |-> hits]

DatajudRede ==
    { Ok(Json(1, <<HitPadrao>>)), Ok(Json(0, << >>)),
      Resposta(500, <<"Internal", "Server", "Error">>, Null),
      Erro("FetchError", <<"request", "failed,", "reason:", "read", "ECONNRESET">>) }

\* datajud.consultar(numero, 'tjms') up to the await of fetch
datajudInicio(num) ==
    IF Len(SoDigitos(num)) < 10
    THEN Rejected(Erro("Error", <<"Numero", "do", "processo", "invalido.">>))
    ELSE Fetching(1, 1)

\* ... and on from the answer of fetch
datajudConsultar(o) ==
    IF o.t # "resp" THEN Rejected(o)
    ELSE IF ~RespOk(o)
    THEN Rejected(Erro("Error", <<"DataJud", "HTTP", ToString(o.status)>>))
    ELSE IF Len(o.body.hits) > 0
    THEN Fulfilled([t |-> "datajud",
                    total |-> IF o.body.total # 0 THEN o.body.total ELSE Len(o.body.hits),
                    processos |-> o.body.hits])
    ELSE Fulfilled([t |-> "datajud", total |-> 0, processos |-> << >>])

DatajudFetch(o) ==
    /\ task["datajud"].pc = "fetch"
    /\ task' = [task EXCEPT !["datajud"] = datajudConsultar(o)]

----------------------------------------------------------------------------
(* Joins *)

\* Promise.all over promises ps: rejected as soon as one is rejected
PromiseAll(ps) ==
    IF \E k \in 1..Len(ps) : ps[k].pc = "rejected"
    THEN [pc |-> "rejected", val |-> ps[CHOOSE k \in 1..Len(ps) : ps[k].pc = "rejected"].val]
    ELSE IF \E k \in 1..Len(ps) : ~Settled(ps[k]) THEN [pc |-> "pending", val |-> Null]
    ELSE [pc |-> "fulfilled",
          val |-> [k \in 1..Len(ps) |-> [status |-> ps[k].pc, v |-> ps[k].val]]]

\* Promise.allSettled over promises ps: pending until every one has settled,
\* then fulfilled with the array of { status, value | reason }
PromiseAllSettled(ps) ==
    IF \E k \in 1..Len(ps) : ~Settled(ps[k]) THEN [pc |-> "pending", val |-> Null]
    ELSE [pc |-> "fulfilled",
          val |-> [k \in 1..Len(ps) |-> [status |-> ps[k].pc, v |-> ps[k].val]]]

Mensagem(err) == [t |-> "msg", words |-> err.message]

\* the object consultarAmbosGraus builds from the two settled results
ambosResultado(r) ==
    [t |-> "ambos",
     primeiroGrau |-> IF r[1].status = "fulfilled" THEN r[1].v ELSE Null,
     segundoGrau |-> IF r[2].status = "fulfilled" THEN r[2].v ELSE Null,
     erros |-> [primeiroGrau |-> IF r[1].status = "rejected" THEN Mensagem(r[1].v) ELSE Null,
                segundoGrau |-> IF r[2].status = "rejected" THEN Mensagem(r[2].v) ELSE Null]]

\* esaj / eproc consultarAmbosGraus after its await
consultarAmbosGraus(portal) ==
    /\ ambos[portal].pc = "pending"
    /\ LET j == PromiseAllSettled(IF portal = "esaj" THEN <<task["esaj1g"], task["esaj2g"]>>
                                  ELSE <<task["eproc1g"], task["eproc2g"]>>)
       IN /\ j.pc # "pending"
          /\ ambos' = [ambos EXCEPT ![portal] =
                         IF j.pc = "fulfilled" THEN [pc |-> "fulfilled", val |-> ambosResultado(j.val)]
                         ELSE j]

----------------------------------------------------------------------------
(* POST /api/consulta-completa *)

Http(status, body) == [t |-> "http", status |-> status, body |-> body]

\* the handler up to its await: validation, then the three calls are started
ConsultaCompleta ==
    /\ resposta = Pendente
    /\ \A t \in Tasks : task[t].pc = "idle"
    /\ IF numero = << >>
       THEN /\ resposta' = Http(400, [error |-> "Campo numero obrigatorio"])
            /\ UNCHANGED <<task, ambos>>
       ELSE IF Len(SoDigitos(numero)) < 10
       THEN /\ resposta' = Http(400, [error |-> "Numero do processo invalido"])
            /\ UNCHANGED <<task, ambos>>
       ELSE /\ task' = [t \in Tasks |->
                          IF t = "datajud" THEN datajudInicio(numero)
                          ELSE IF t = "status" THEN Idle
                          ELSE IF Portal(t) = "esaj" THEN esajInicio(numero)
                          ELSE eprocInicio(numero)]
            /\ ambos' = [p \in {"esaj", "eproc"} |-> [pc |-> "pending", val |-> Null]]
            /\ UNCHANGED resposta
    /\ UNCHANGED <<numero, hist, dadosDatajud, dadosEsaj, dadosEproc, unificado, antes>>

\* dadosX?.erros || null
ErrosDe(dados) == IF dados.t = "null" THEN Null ELSE dados.erros

\* { primeiroGrau, segundoGrau } of the portal section, or null
SecaoDe(dados) ==
    IF dados.t = "null" THEN Null
    ELSE [t |-> "secao", primeiroGrau |-> dados.primeiroGrau, segundoGrau |-> dados.segundoGrau]

\* the handler after its await: merge and answer
Responder ==
    /\ resposta = Pendente
    /\ LET j == PromiseAllSettled(<<task["datajud"], ambos["esaj"], ambos["eproc"]>>)
       IN /\ j.pc # "pending"
          /\ IF j.pc = "rejected"
             THEN /\ resposta' = Http(500, [error |-> "Erro interno na consulta."])
                  /\ UNCHANGED <<dadosDatajud, dadosEsaj, dadosEproc, unificado, antes>>
             ELSE LET dj == IF j.val[1].status = "fulfilled" THEN j.val[1].v ELSE Null
                      es == IF j.val[2].status = "fulfilled" THEN j.val[2].v ELSE Null
                      ep == IF j.val[3].status = "fulfilled" THEN j.val[3].v ELSE Null
                      u == mergeResultados(dj, es, ep)
                      djDepois == datajudAposMerge(dj)
                  IN /\ dadosDatajud' = djDepois
                     /\ dadosEsaj' = es
                     /\ dadosEproc' = ep
                     /\ unificado' = u
                     /\ antes' = <<dj, es, ep>>
                     /\ resposta' = Http(200,
                           [datajud |-> djDepois,
                            esaj |-> SecaoDe(es),
                            eproc |-> SecaoDe(ep),
                            unificado |-> u,
                            erros |-> [datajud |-> IF j.val[1].status = "rejected"
                                                   THEN Mensagem(j.val[1].v) ELSE Null,
                                       esaj |-> ErrosDe(es),
                                       eproc |-> ErrosDe(ep)]])
    /\ UNCHANGED <<numero, task, ambos, hist>>

----------------------------------------------------------------------------
(* Spec: one unified query, from the request to the response *)

Init ==
    /\ numero \in Numeros
    /\ task = [t \in Tasks |-> Idle]
    /\ ambos = [p \in {"esaj", "eproc"} |-> [pc |-> "idle", val |-> Null]]
    /\ resposta = Pendente
    /\ hist = << >>
    /\ dadosDatajud = Null
    /\ dadosEsaj = Null
    /\ dadosEproc = Null
    /\ unificado = Null
    /\ antes = << >>

Resto == <<numero, ambos, resposta, hist, dadosDatajud, dadosEsaj, dadosEproc, unificado, antes>>

PortalAttempt == \E t \in Leaves : \E o \in RedeConsulta(t) : Attempt(t, o) /\ UNCHANGED Resto
PortalWake == \E t \in Leaves : Wake(t) /\ UNCHANGED Resto
PortalReadPage == \E t \in Leaves : ReadPage(t) /\ UNCHANGED Resto
DatajudAnswer == \E o \in DatajudRede : DatajudFetch(o) /\ UNCHANGED Resto
AmbosGraus ==
    \E p \in {"esaj", "eproc"} :
        consultarAmbosGraus(p)
        /\ UNCHANGED <<numero, task, resposta, hist, dadosDatajud, dadosEsaj, dadosEproc, unificado, antes>>

Next ==
    \/ ConsultaCompleta
    \/ PortalAttempt
    \/ PortalWake
    \/ PortalReadPage
    \/ DatajudAnswer
    \/ AmbosGraus
    \/ Responder

Spec == Init /\ [][Next]_vars

----------------------------------------------------------------------------
(* SpecAdapter: one adapter called alone (as POST /api/consulta-esaj with
   grau 1 or 2 does, or GET /api/status for verificarDisponibilidade), with
   the log of every network attempt kept in hist. *)

Adapters == Leaves \cup {"status"}

Inicio(t, num) ==
    IF t = "status" THEN statusInicio
    ELSE IF Portal(t) = "esaj" THEN esajInicio(num) ELSE eprocInicio(num)

InitAdapter ==
    /\ numero \in {Numero11, Numero20}
    /\ \E t0 \in Adapters :
          /\ task = [t \in Tasks |-> IF t = t0 THEN Inicio(t, numero) ELSE Idle]
          /\ hist = IF Inicio(t0, numero).pc = "fetch" THEN << << >> >> ELSE << >>
    /\ ambos = [p \in {"esaj", "eproc"} |-> [pc |-> "idle", val |-> Null]]
    /\ resposta = Pendente
    /\ dadosDatajud = Null
    /\ dadosEsaj = Null
    /\ dadosEproc = Null
    /\ unificado = Null
    /\ antes = << >>

SemHist == <<numero, ambos, resposta, dadosDatajud, dadosEsaj, dadosEproc, unificado, antes>>

AdapterAttempt ==
    \E t \in Adapters : \E o \in Rede(t) :
        /\ Attempt(t, o)
        /\ hist' = [hist EXCEPT ![Len(hist)] = Append(@, o)]
        /\ UNCHANGED SemHist

AdapterWake == \E t \in Adapters : Wake(t) /\ UNCHANGED hist /\ UNCHANGED SemHist

AdapterReadPage ==
    \E t \in Adapters :
        /\ ReadPage(t)
        /\ hist' = IF task'[t].pc = "fetch" THEN Append(hist, << >>) ELSE hist
        /\ UNCHANGED SemHist

NextAdapter == AdapterAttempt \/ AdapterWake \/ AdapterReadPage

SpecAdapter == InitAdapter /\ [][NextAdapter]_vars

\* the adapter that runs, its budget, and the log of its current fetchComRetry call
Ativo == CHOOSE t \in Adapters : task[t].pc # "idle"
Budget(t) == IF t = "status" THEN 1 ELSE MAX_RETRIES(Portal(t))
Chamada == IF hist = << >> THEN << >> ELSE hist[Len(hist)]
Ultimo == Chamada[Len(Chamada)]

Is4xx(o) == o.t = "resp" /\ o.status >= 400 /\ o.status <= 499
Is5xx(o) == o.t = "resp" /\ o.status >= 500 /\ o.status <= 599
IsHttpErro(o) == o.t = "resp" /\ ~RespOk(o)
IsTransporte(o) == o.t = "error"
\* host unreachable, connection refused, timeout of the attempt
IsConectividade(o) ==
    o.t = "error" /\ (o.name = "AbortError" \/ Includes(o.message, "ENOTFOUND")
                      \/ Includes(o.message, "ECONNREFUSED"))

\* the error a failed attempt leaves in the catch block
ErroDaTentativa(portal, o) ==
    IF o.t = "resp" THEN Erro("Error", <<"HTTP", ToString(o.status)>> \o o.statusText)
    ELSE IF o.name = "AbortError"
    THEN Erro("AbortError", <<"Timeout", "de", ToString(TIMEOUT_MS(portal)), "ms", "excedido">>)
    ELSE o

----------------------------------------------------------------------------
(* Claims on the Resilient Fetcher and the portal adapters (SpecAdapter) *)

\* C2: a 4xx response is terminal at once: it is the last attempt of the call,
\* and after it the adapter has settled (no backoff, no further attempt).
C2_4xxTerminal ==
    \A c \in 1..Len(hist) : \A k \in 1..Len(hist[c]) :
        Is4xx(hist[c][k]) =>
            /\ c = Len(hist)
            /\ k = Len(hist[c])
            /\ Settled(task[Ativo])

\* C3: a fetchComRetry call of budget N makes at most N attempts, every attempt
\* but the last failed, it returns only the ok response of its last attempt and
\* otherwise throws the error of its last attempt.
C3_BoundedRetry ==
    LET t == Ativo
        tk == task[t]
        N == Budget(t)
    IN /\ \A c \in 1..Len(hist) :
            /\ Len(hist[c]) <= N
            /\ \A k \in 1..(Len(hist[c]) - 1) : ~(hist[c][k].t = "resp" /\ RespOk(hist[c][k]))
            /\ c < Len(hist) => (hist[c] # << >> /\ RespOk(hist[c][Len(hist[c])]))
       /\ tk.pc = "fetch" => (tk.retries = N /\ Len(Chamada) = tk.i /\ tk.i < N)
       /\ tk.pc = "sleep" => /\ Len(Chamada) = tk.i + 1
                             /\ tk.i + 1 < N
                             /\ ~(Ultimo.t = "resp" /\ RespOk(Ultimo))
       /\ tk.pc = "text" => (tk.val.t = "resp" /\ RespOk(tk.val) /\ tk.val = Ultimo)
       /\ (tk.pc = "rejected" /\ Chamada # << >>) => tk.val = ErroDaTentativa(Portal(t), Ultimo)

\* a call that used its whole budget of 3 on a 5xx, a transport error and a
\* last failure, and threw
C3_Witness ==
    /\ Len(Chamada) = 3
    /\ Is5xx(Chamada[1])
    /\ IsTransporte(Chamada[2])
    /\ task[Ativo].pc = "rejected"

\* the extraction of the page an ok attempt brought
Extraido(o, grau) == parseProcessoHTML(o.body, grau)

\* C4: an eSAJ adapter makes at most one additional fetch after a redirect
\* signal, and when the second page is a redirect signal too its result is
\* null, never the redirect object.
C4_SecondRedirectIsNull ==
    \A t \in {"esaj1g", "esaj2g"} :
        task[t].pc # "idle" =>
            /\ Len(hist) <= 2
            /\ (Len(hist) = 2) => Extraido(hist[1][Len(hist[1])], Grau(t)).t = "redirect"
            /\ task[t].pc = "fulfilled" =>
                  /\ task[t].val.t # "redirect"
                  /\ (Len(hist) = 2 /\ Extraido(Ultimo, Grau(t)).t = "redirect") => task[t].val = Null

\* the last fetchComRetry call of the adapter threw: the adapter has settled
\* and the last attempt was a failure
Lancou(t) ==
    /\ Settled(task[t])
    /\ Chamada # << >>
    /\ ~(Ultimo.t = "resp" /\ RespOk(Ultimo))

\* C5 as claimed: in every portal adapter a connectivity-class failure of the
\* fetch gives a null result.
C5_ConnectivityIsNull ==
    \A t \in Leaves :
        (Lancou(t) /\ IsConectividade(Ultimo)) => task[t] = Fulfilled(Null)

\* C5 amended: the eproc adapters give null; the eSAJ adapters, which have no
\* handler, reject with the error of the last attempt.
C5_ConnectivityEprocOnly ==
    \A t \in Leaves :
        (Lancou(t) /\ IsConectividade(Ultimo)) =>
            IF Portal(t) = "eproc"
            THEN task[t] = Fulfilled(Null)
            ELSE task[t] = Rejected(ErroDaTentativa("esaj", Ultimo))

\* eproc first instance: both attempts timed out, the result is null
C5_Witness ==
    /\ Len(Chamada) = 2
    /\ Chamada[1] = Abortado
    /\ Ultimo = Abortado
    /\ task["eproc1g"] = Fulfilled(Null)

\* C6: a fetch that ends with a non-ok HTTP status makes the adapter reject
\* (it is never downgraded to null).
C6_HttpErrorPropagates ==
    \A t \in Leaves :
        (Lancou(t) /\ IsHttpErro(Ultimo)) => task[t].pc = "rejected"

----------------------------------------------------------------------------
(* Claim on the unified query (Spec) *)

\* the call was rejected with an unreachable host, a refused connection or a timeout
ErroConectividade(tk) ==
    tk.pc = "rejected"
    /\ (tk.val.name = "AbortError" \/ Includes(tk.val.message, "ENOTFOUND")
        \/ Includes(tk.val.message, "ECONNREFUSED"))

\* the entry of the error map for a settled call
EntradaErro(tk) == IF tk.pc = "rejected" THEN Mensagem(tk.val) ELSE Null

\* portal-A failed on connectivity in both instances, the API brought a hit
\* and portal-B's first instance brought a record
CenarioD ==
    /\ ErroConectividade(task["esaj1g"])
    /\ ErroConectividade(task["esaj2g"])
    /\ task["datajud"].pc = "fulfilled" /\ task["datajud"].val.total > 0
    /\ task["eproc1g"].pc = "fulfilled" /\ task["eproc1g"].val.t = "rec"
    /\ task["eproc2g"].pc = "fulfilled"

\* C1: a request that passes validation is answered only when the five calls
\* have settled, always with status 200, the unified record and an error map
\* whose entries are non-null exactly for the calls that failed; in scenario D
\* the unified record carries the API and portal-B data.
C1_PartialFailure ==
    resposta.t = "http" =>
        IF numero = << >> \/ Len(SoDigitos(numero)) < 10
        THEN resposta.status = 400
        ELSE /\ resposta.status = 200
             /\ \A t \in Sources : Settled(task[t])
             /\ resposta.body.unificado.t = "unificado"
             /\ resposta.body.erros.datajud = EntradaErro(task["datajud"])
             /\ resposta.body.erros.esaj.primeiroGrau = EntradaErro(task["esaj1g"])
             /\ resposta.body.erros.esaj.segundoGrau = EntradaErro(task["esaj2g"])
             /\ resposta.body.erros.eproc.primeiroGrau = EntradaErro(task["eproc1g"])
             /\ resposta.body.erros.eproc.segundoGrau = EntradaErro(task["eproc2g"])
             /\ CenarioD =>
                   /\ resposta.body.unificado.classe = task["datajud"].val.processos[1].classe.nome
                   /\ resposta.body.unificado.partes = task["eproc1g"].val.partes
                   /\ resposta.body.unificado.partes # << >>
                   /\ resposta.body.unificado.fontes.datajud
                   /\ resposta.body.unificado.fontes.eproc1g
                   /\ resposta.body.eproc.primeiroGrau = task["eproc1g"].val
                   /\ resposta.body.erros.esaj.primeiroGrau # Null
                   /\ resposta.body.erros.esaj.segundoGrau # Null
                   /\ resposta.body.erros.datajud = Null
                   /\ resposta.body.erros.eproc.primeiroGrau = Null
                   /\ resposta.body.erros.eproc.segundoGrau = Null

\* scenario D has been answered
C1_Witness == resposta.t = "http" /\ resposta.status = 200 /\ CenarioD

----------------------------------------------------------------------------
(* SpecMerge: mergeResultados applied to the results of the three calls.  The
   inputs are drawn in three families: A varies the classification fields of
   every source, B the movement lists, C the party lists. *)

MaxMovs == 3
MaxPartes == 2

\* the value of field f as source src gives it
Valor(f, src) == <<f, src>>

Opt(v) == {<< >>, v}

RecEsaj(grau, classe, area, assunto, distribuicao, partes, movs) ==
    [t |-> "rec", fonte |-> "esaj", grau |-> grau, classe |-> classe, area |-> area,
     assunto |-> assunto, distribuicao |-> distribuicao, juiz |-> << >>, valorAcao |-> << >>,
     numero |-> << >>, partes |-> partes, movimentacoes |-> movs]

RecEproc(grau, classe, area, assunto, distribuicao, orgao, partes, movs) ==
    [t |-> "rec", fonte |-> "eproc", grau |-> grau, classe |-> classe, area |-> area,
     assunto |-> assunto, distribuicao |-> distribuicao, juiz |-> << >>, orgaoJulgador |-> orgao,
     situacao |-> << >>, partes |-> partes, movimentacoes |-> movs]

Redirect == [t |-> "redirect", redirect |-> <<"s", "?", "1">>]

AmbosDe(primeiroGrau, segundoGrau) ==
    [t |-> "ambos", primeiroGrau |-> primeiroGrau, segundoGrau |-> segundoGrau,
     erros |-> [primeiroGrau |-> Null, segundoGrau |-> Null]]

Datajud(hit) == [t |-> "datajud", total |-> 1, processos |-> <<hit>>]
DatajudVazio == [t |-> "datajud", total |-> 0, processos |-> << >>]

Parte(src, k) == [tipo |-> <<"A">>, nome |-> <<src, ToString(k)>>, advogados |-> << >>]
PartesDe(src, n) == [k \in 1..n |-> Parte(src, k)]

\* family A
DatajudA ==
    {Null, DatajudVazio}
    \cup { Datajud(Hit(c, a, o, d, << >>)) :
             c \in Opt(Valor("C", "d")),
             a \in {<< >>, <<[nome |-> Valor("S", "d"), codigo |-> <<"9">>]>>},
             o \in Opt(Valor("O", "d")),
             d \in Opt(Ano2021) }
EsajA ==
    {Null, Redirect}
    \cup { RecEsaj(<<"1">>, c, a, s, d, << >>, << >>) :
             c \in Opt(Valor("C", "e")), a \in Opt(Valor("A", "e")),
             s \in Opt(Valor("S", "e")), d \in Opt(Valor("D", "e")) }
EprocA ==
    {Null}
    \cup { RecEproc(<<"1">>, c, a, s, d, o, PartesDe("p", 1), << >>) :
             c \in Opt(Valor("C", "p")), a \in Opt(Valor("A", "p")),
             s \in Opt(Valor("S", "p")), d \in Opt(Valor("D", "p")), o \in Opt(Valor("O", "p")) }

\* family B
Datas == {<< >>, <<"s", "/", "d">>, Ano2021, Ano2022, Ano2023}
NomeMov(k) == <<"m", ToString(k)>>
MovListas ==
    UNION { { [k \in 1..n |-> Movimento(d[k], NomeMov(k))] : d \in [1..n -> Datas] } : n \in 0..MaxMovs }
MovsEsaj == <<[data |-> <<"0", "1", "/", "2", "1">>, descricao |-> <<"p", "1">>],
              [data |-> <<"0", "2", "/", "2", "3">>, descricao |-> <<"p", "2">>]>>
MovsEproc == <<[data |-> <<"0", "3", "/", "2", "2">>, descricao |-> <<"q", "1">>]>>

DatajudB ==
    {Null, DatajudVazio}
    \cup { Datajud(Hit(Valor("C", "d"), << >>, << >>, << >>, m)) : m \in MovListas }
EsajB ==
    {Null, Redirect,
     RecEsaj(<<"1">>, Valor("C", "e"), << >>, << >>, << >>, << >>, << >>),
     RecEsaj(<<"1">>, << >>, << >>, << >>, << >>, << >>, MovsEsaj)}
EprocB ==
    {Null,
     RecEproc(<<"1">>, Valor("C", "p"), << >>, << >>, << >>, << >>, << >>, << >>),
     RecEproc(<<"1">>, << >>, << >>, << >>, << >>, << >>, << >>, MovsEproc)}

\* family C
EsajC(grau, src) ==
    {Null, Redirect}
    \cup { RecEsaj(grau, << >>, << >>, << >>, << >>, PartesDe(src, n), << >>) : n \in 0..MaxPartes }
EprocC(grau, src) ==
    {Null}
    \cup { RecEproc(grau, Valor("C", src), << >>, << >>, << >>, << >>, PartesDe(src, n), << >>) :
             n \in 0..MaxPartes }

\* family D: the second-instance records
EsajD ==
    {Null, Redirect}
    \cup { RecEsaj(<<"2">>, c, a, s, << >>, << >>, m) :
             c \in Opt(Valor("C", "E")), a \in Opt(Valor("A", "E")),
             s \in Opt(Valor("S", "E")), m \in {<< >>, MovsEsaj} }
EprocD ==
    {Null}
    \cup { RecEproc(<<"2">>, c, << >>, s, << >>, o, PartesDe("P", 1), m) :
             c \in Opt(Valor("C", "P")), s \in Opt(Valor("S", "P")),
             o \in Opt(Valor("O", "P")), m \in {<< >>, MovsEproc} }

InitMerge ==
    /\ \/ /\ dadosDatajud \in DatajudA
          /\ dadosEsaj \in {AmbosDe(e1, Null) : e1 \in EsajA}
          /\ dadosEproc \in {AmbosDe(ep1, Null) : ep1 \in EprocA}
       \/ /\ dadosDatajud \in DatajudB
          /\ dadosEsaj \in {AmbosDe(e1, Null) : e1 \in EsajB}
          /\ dadosEproc \in {AmbosDe(ep1, Null) : ep1 \in EprocB}
       \/ /\ dadosDatajud \in {Null, Datajud(HitPadrao)}
          /\ dadosEsaj \in {AmbosDe(e1, e2) : e1 \in EsajC(<<"1">>, "e"), e2 \in EsajC(<<"2">>, "E")}
          /\ dadosEproc \in {AmbosDe(ep1, ep2) : ep1 \in EprocC(<<"1">>, "p"), ep2 \in EprocC(<<"2">>, "P")}
       \/ /\ dadosDatajud \in {Null, Datajud(HitPadrao)}
          /\ dadosEsaj \in {AmbosDe(e1, e2) : e1 \in {Null, RecEsaj(<<"1">>, Valor("C", "e"), << >>, << >>, << >>, << >>, << >>)},
                                             e2 \in EsajD}
          /\ dadosEproc \in {AmbosDe(Null, ep2) : ep2 \in EprocD}
    /\ numero = Numero20
    /\ task = [t \in Tasks |-> Idle]
    /\ ambos = [p \in {"esaj", "eproc"} |-> [pc |-> "idle", val |-> Null]]
    /\ resposta = Pendente
    /\ hist = << >>
    /\ unificado = Null
    /\ antes = << >>

\* const unificado = mergeResultados(dadosDatajud, dadosEsaj, dadosEproc)
Merge ==
    /\ antes = << >>
    /\ antes' = <<dadosDatajud, dadosEsaj, dadosEproc>>
    /\ unificado' = mergeResultados(dadosDatajud, dadosEsaj, dadosEproc)
    /\ dadosDatajud' = datajudAposMerge(dadosDatajud)
    /\ UNCHANGED <<numero, task, ambos, resposta, hist, dadosEsaj, dadosEproc>>

NextMerge == Merge

SpecMerge == InitMerge /\ [][NextMerge]_vars

----------------------------------------------------------------------------
(* The merge, stated over what mergeResultados was given (antes) and what it
   built (unificado). *)

Unido == antes # << >> /\ unificado # Null
ProcAntes == primeiroProcesso(antes[1])
E1Antes == GrauDe(antes[2], "primeiroGrau")
E2Antes == GrauDe(antes[2], "segundoGrau")
Ep1Antes == GrauDe(antes[3], "primeiroGrau")
Ep2Antes == GrauDe(antes[3], "segundoGrau")

\* the first non-empty value of a list of values, << >> when there is none
RECURSIVE PrimeiroValor(_)
PrimeiroValor(vs) ==
    IF vs = << >> THEN << >>
    ELSE IF Len(Head(vs)) > 0 THEN Head(vs)
    ELSE PrimeiroValor(Tail(vs))

ApiClasse == Campo(Campo(ProcAntes, "classe"), "nome")
ApiOrgao == Campo(Campo(ProcAntes, "orgaoJulgador"), "nome")
ApiAssunto == IF Len(Campo(ProcAntes, "assuntos")) > 0 THEN ProcAntes.assuntos[1].nome ELSE << >>
ApiAjuizamento == Campo(ProcAntes, "dataAjuizamento")

\* C7 (as stated): class, area, subject, deciding body and distribution date
\* each take the DataJud value when it is non-empty, otherwise the eSAJ
\* first-instance value, otherwise the eproc first-instance value.
C7_ApiFirst ==
    Unido =>
      /\ unificado.classe =
           PrimeiroValor(<<ApiClasse, Campo(E1Antes, "classe"), Campo(Ep1Antes, "classe")>>)
      /\ unificado.area = PrimeiroValor(<<Campo(E1Antes, "area"), Campo(Ep1Antes, "area")>>)
      /\ unificado.assuntoPrincipal =
           PrimeiroValor(<<ApiAssunto, Campo(E1Antes, "assunto"), Campo(Ep1Antes, "assunto")>>)
      /\ unificado.orgaoJulgador = PrimeiroValor(<<ApiOrgao, Campo(Ep1Antes, "orgaoJulgador")>>)
      /\ unificado.distribuicao =
           PrimeiroValor(<<ApiAjuizamento, Campo(E1Antes, "distribuicao"),
                           Campo(Ep1Antes, "distribuicao")>>)

\* C7 (amended): class takes DataJud, then eSAJ, then eproc; deciding body takes
\* DataJud, then eproc; area takes eSAJ, then eproc; subject and distribution
\* date take eSAJ, then eproc, and the DataJud value only when both are empty.
C7_FieldPrecedence ==
    Unido =>
      /\ unificado.classe =
           PrimeiroValor(<<ApiClasse, Campo(E1Antes, "classe"), Campo(Ep1Antes, "classe")>>)
      /\ unificado.orgaoJulgador = PrimeiroValor(<<ApiOrgao, Campo(Ep1Antes, "orgaoJulgador")>>)
      /\ unificado.area = PrimeiroValor(<<Campo(E1Antes, "area"), Campo(Ep1Antes, "area")>>)
      /\ unificado.assuntoPrincipal =
           PrimeiroValor(<<Campo(E1Antes, "assunto"), Campo(Ep1Antes, "assunto"), ApiAssunto>>)
      /\ unificado.distribuicao =
           PrimeiroValor(<<Campo(E1Antes, "distribuicao"), Campo(Ep1Antes, "distribuicao"),
                           ApiAjuizamento>>)

\* every source gives a class and a subject: the class is DataJud's, the subject eSAJ's
C7_Witness ==
    /\ Unido
    /\ ApiClasse # << >> /\ ApiAssunto # << >>
    /\ Campo(E1Antes, "classe") # << >> /\ Campo(E1Antes, "assunto") # << >>
    /\ Campo(Ep1Antes, "classe") # << >> /\ Campo(Ep1Antes, "assunto") # << >>
    /\ unificado.classe = ApiClasse
    /\ unificado.assuntoPrincipal = Campo(E1Antes, "assunto")

MovsApi == Campo(ProcAntes, "movimentos")
MovsE1 == Campo(E1Antes, "movimentacoes")
MovsEp1 == Campo(Ep1Antes, "movimentacoes")

\* the unified list is list l of a portal, in its order, every event tagged fonte
MesmaLista(l, fonte) ==
    /\ Len(unificado.movimentacoes) = Len(l)
    /\ \A k \in 1..Len(l) :
         /\ unificado.movimentacoes[k].fonte = fonte
         /\ unificado.movimentacoes[k].data = l[k].data
         /\ unificado.movimentacoes[k].descricao = l[k].descricao

\* C8: the unified movement list comes from one source: the DataJud list when
\* it is non-empty (same length, same events, all tagged datajud), otherwise
\* the eSAJ first-instance list in its order, otherwise the eproc
\* first-instance list in its order, otherwise it is empty.
C8_OneSource ==
    Unido =>
      IF Len(MovsApi) > 0
      THEN /\ Len(unificado.movimentacoes) = Len(MovsApi)
           /\ \A k \in 1..Len(MovsApi) :
                /\ unificado.movimentacoes[k].fonte = "datajud"
                /\ \E j \in 1..Len(MovsApi) :
                     /\ unificado.movimentacoes[k].descricao = MovsApi[j].nome
                     /\ unificado.movimentacoes[k].data = MovsApi[j].dataHora
           /\ \A j \in 1..Len(MovsApi) :
                \E k \in 1..Len(MovsApi) : unificado.movimentacoes[k].descricao = MovsApi[j].nome
      ELSE IF Len(MovsE1) > 0 THEN MesmaLista(MovsE1, "esaj")
      ELSE IF Len(MovsEp1) > 0 THEN MesmaLista(MovsEp1, "eproc")
      ELSE unificado.movimentacoes = << >>

\* no DataJud movement, two eSAJ movements, eproc movements too: the list is eSAJ's
C8_Witness ==
    /\ Unido
    /\ antes[1] # Null /\ Len(MovsApi) = 0
    /\ Len(MovsE1) = 2 /\ Len(MovsEp1) > 0
    /\ Len(unificado.movimentacoes) = 2
    /\ unificado.movimentacoes[1].descricao = MovsE1[1].descricao
    /\ unificado.movimentacoes[1].fonte = "esaj"

\* an event of the unified list has a date that parses
Datado(m) == m.data # << >> /\ DataValida(m.data)
\* where the event was in the DataJud list
PosicaoOriginal(m) == CHOOSE j \in 1..Len(MovsApi) : MovsApi[j].nome = m.descricao

\* C9 (as stated): when the DataJud list is used, the events with a parseable
\* date come first, by date descending, and the events with a missing or
\* unparseable date come after all of them, in their original relative order.
C9_SortedUndatedLast ==
    (Unido /\ Len(MovsApi) > 0) =>
      LET u == unificado.movimentacoes
      IN \A j, k \in 1..Len(u) :
           j < k =>
             /\ Datado(u[k]) => Datado(u[j])
             /\ (Datado(u[j]) /\ Datado(u[k])) => DataValor(u[j].data) >= DataValor(u[k].data)
             /\ (~Datado(u[j]) /\ ~Datado(u[k])) => PosicaoOriginal(u[j]) < PosicaoOriginal(u[k])

ListaPartes(x) == Campo(x, "partes")

\* C10: the unified party list is the first non-empty list among eSAJ first
\* instance, eproc first instance, eSAJ second instance, eproc second
\* instance, fixed by the four lists alone, and is empty when all four are
\* empty or absent.
C10_PartesPrecedence ==
    Unido =>
      LET l == <<ListaPartes(E1Antes), ListaPartes(Ep1Antes),
                 ListaPartes(E2Antes), ListaPartes(Ep2Antes)>>
      IN IF \A k \in 1..4 : Len(l[k]) = 0
         THEN unificado.partes = << >>
         ELSE \E k \in 1..4 :
                /\ Len(l[k]) > 0
                /\ \A j \in 1..(k - 1) : Len(l[j]) = 0
                /\ unificado.partes = l[k]

\* both first-instance lists non-empty: the list is eSAJ's, not eproc's
C10_Witness ==
    /\ Unido
    /\ Len(ListaPartes(E1Antes)) > 0 /\ Len(ListaPartes(Ep1Antes)) > 0
    /\ Len(ListaPartes(E2Antes)) > 0
    /\ unificado.partes = ListaPartes(E1Antes)
    /\ unificado.partes # ListaPartes(Ep1Antes)

----------------------------------------------------------------------------
(* The provenance flags and the second-instance sub-record. *)

CamposDeRegistro ==
    {"classe", "area", "assunto", "distribuicao", "juiz", "valorAcao", "orgaoJulgador", "situacao"}

\* the result x of a portal call holds a non-empty field or a non-empty list
Contribuiu(x) ==
    \/ \E f \in CamposDeRegistro : Campo(x, f) # << >>
    \/ Len(Campo(x, "partes")) > 0
    \/ Len(Campo(x, "movimentacoes")) > 0

\* the DataJud result holds a hit
ContribuiuApi(dj) == dj.t = "datajud" /\ Len(dj.processos) > 0

\* C11 (as stated): each provenance flag is true exactly when that source and
\* instance gave a non-empty field or a non-empty list; no record, a record
\* with nothing in it, or a redirect object leave the flag false.
C11_FlagsIffContributed ==
    Unido =>
      /\ unificado.fontes.datajud <=> ContribuiuApi(antes[1])
      /\ unificado.fontes.esaj1g <=> Contribuiu(E1Antes)
      /\ unificado.fontes.esaj2g <=> Contribuiu(E2Antes)
      /\ unificado.fontes.eproc1g <=> Contribuiu(Ep1Antes)
      /\ unificado.fontes.eproc2g <=> Contribuiu(Ep2Antes)

ClassificacaoSegundoGrau == {"classe", "area", "assunto", "orgaoJulgador", "distribuicao"}

\* C12 (as stated): the unified record has a second-instance sub-record exactly
\* when a second-instance result holds a non-empty classification field, any
\* of them; otherwise the sub-record is absent.
C12_AnyClassificationField ==
    Unido =>
      (unificado.segundoGrau # Null <=>
         \E f \in ClassificacaoSegundoGrau : Campo(E2Antes, f) # << >> \/ Campo(Ep2Antes, f) # << >>)

\* C12 (amended): the sub-record is present exactly when a second-instance
\* result holds a non-empty class; it then carries that class, so it is never
\* an empty shell, and it is absent when no second-instance result holds a
\* classification field.
C12_ClassOnly ==
    Unido =>
      /\ unificado.segundoGrau # Null <=>
           (Campo(E2Antes, "classe") # << >> \/ Campo(Ep2Antes, "classe") # << >>)
      /\ unificado.segundoGrau # Null =>
           /\ unificado.segundoGrau.classe # << >>
           /\ unificado.segundoGrau.classe \in {Campo(E2Antes, "classe"), Campo(Ep2Antes, "classe")}

\* both second-instance results give a class: the sub-record is there, with eSAJ's
C12_Witness ==
    /\ Unido
    /\ Campo(E2Antes, "classe") # << >> /\ Campo(Ep2Antes, "classe") # << >>
    /\ unificado.segundoGrau # Null
    /\ unificado.segundoGrau.classe = Campo(E2Antes, "classe")

----------------------------------------------------------------------------
(* What the unified record holds against what the sources held. *)

PortaisAntes == {E1Antes, Ep1Antes, E2Antes, Ep2Antes}
AssuntosApi == Campo(ProcAntes, "assuntos")

\* the values the sources hold for a field of the unified record
ValoresDasFontes(f) ==
    CASE f = "numero" -> {Campo(ProcAntes, "numeroProcesso")}
      [] f = "classe" -> {ApiClasse} \cup {Campo(x, "classe") : x \in PortaisAntes}
      [] f = "assuntoPrincipal" ->
           {AssuntosApi[k].nome : k \in 1..Len(AssuntosApi)} \cup {Campo(x, "assunto") : x \in PortaisAntes}
      [] f = "orgaoJulgador" -> {ApiOrgao} \cup {Campo(x, "orgaoJulgador") : x \in PortaisAntes}
      [] f = "distribuicao" -> {ApiAjuizamento} \cup {Campo(x, "distribuicao") : x \in PortaisAntes}
      [] f = "grau" -> {Campo(ProcAntes, "grau")} \cup {Campo(x, "grau") : x \in PortaisAntes}
      [] OTHER -> {Campo(x, f) : x \in PortaisAntes}

CamposUnificados ==
    {"numero", "classe", "area", "assuntoPrincipal", "orgaoJulgador", "juiz", "distribuicao",
     "valorAcao", "grau", "situacao"}

\* the movement events the sources hold, as (date, description) pairs
EventosDasFontes ==
    {<<MovsApi[k].dataHora, MovsApi[k].nome>> : k \in 1..Len(MovsApi)}
    \cup {<<MovsApi[k].dataHora, MovsApi[k].codigo>> : k \in 1..Len(MovsApi)}
    \cup UNION { {<<Campo(x, "movimentacoes")[k].data, Campo(x, "movimentacoes")[k].descricao>> :
                    k \in 1..Len(Campo(x, "movimentacoes"))} : x \in PortaisAntes }

PartesDasFontes ==
    UNION { {ListaPartes(x)[k] : k \in 1..Len(ListaPartes(x))} : x \in PortaisAntes }

\* C13: every non-empty field of the unified record, every subject, every
\* party and every movement event in it is a value one of the source records
\* of the same query holds; the merge writes no value of its own.
C13_NothingInvented ==
    Unido =>
      /\ \A f \in CamposUnificados : unificado[f] # << >> => unificado[f] \in ValoresDasFontes(f)
      /\ \A k \in 1..Len(unificado.assuntos) :
           \E j \in 1..Len(AssuntosApi) : unificado.assuntos[k] \in {AssuntosApi[j].nome, AssuntosApi[j].codigo}
      /\ \A k \in 1..Len(unificado.partes) : unificado.partes[k] \in PartesDasFontes
      /\ \A k \in 1..Len(unificado.movimentacoes) :
           <<unificado.movimentacoes[k].data, unificado.movimentacoes[k].descricao>> \in EventosDasFontes
      /\ unificado.segundoGrau # Null =>
           /\ unificado.segundoGrau.classe \in {Campo(E2Antes, "classe"), Campo(Ep2Antes, "classe")}
           /\ unificado.segundoGrau.assunto # << >> =>
                unificado.segundoGrau.assunto \in {Campo(E2Antes, "assunto"), Campo(Ep2Antes, "assunto")}
           /\ \A k \in 1..Len(unificado.segundoGrau.partes) :
                unificado.segundoGrau.partes[k] \in PartesDasFontes

\* a unified record with a class, a subject, parties and movements, the area
\* empty because no source gave one
C13_Witness ==
    /\ Unido
    /\ unificado.classe # << >> /\ unificado.assuntoPrincipal # << >>
    /\ Len(unificado.partes) > 0 /\ Len(unificado.movimentacoes) > 0
    /\ unificado.area = << >>

----------------------------------------------------------------------------
(* SpecExtract: one portal call whose fetch has returned a page; the step
   taken is the one that reads the body and runs the parser on it.  The pages
   vary what each candidate selector or label of the class finds: nothing,
   only white space, or text. *)

SoBrancos == <<" ", " ">>

SeletoresClasse == <<"#classeProcesso", "#labelClasse", "span[id*=classe]">>

\* the text of the element selector number k finds: a tag between blanks
TextoDoSeletor(k) == <<" ", "c", ToString(k), " ">>

\* what the three class selectors find, any of them matching or not
ElementosClasse ==
    UNION { { [sel \in {SeletoresClasse[k] : k \in D} |->
                 LET k == CHOOSE j \in D : SeletoresClasse[j] = sel
                 IN IF f[k] = "brancos" THEN SoBrancos ELSE TextoDoSeletor(k)] :
              f \in [D -> {"brancos", "texto"}] } : D \in SUBSET (1..3) }

LinhasPartesEsaj == {<< >>, <<[tipo |-> <<"A", ":">>, nome |-> <<"N", "e">>]>>}
LinhasMovsEsaj == {<< >>, <<[data |-> <<"1">>, descricao |-> <<"x">>]>>}

PaginasExtracaoEsaj ==
    {EsajNaoEncontrado, EsajLista}
    \cup { PaginaEsaj(<< >>, << >>, el, ps, ms) :
             el \in ElementosClasse, ps \in LinhasPartesEsaj, ms \in LinhasMovsEsaj }

\* the value next to the k-th label whose text includes "classe"
ValorDoLabel(k, v) ==
    [label |-> <<"classe">>, valor |-> IF v = "brancos" THEN SoBrancos ELSE <<" ", "l", ToString(k), " ">>]

\* zero, one or two such labels, in page order
LabelsClasse ==
    {<< >>}
    \cup { <<ValorDoLabel(1, v)>> : v \in {"brancos", "texto"} }
    \cup { <<ValorDoLabel(1, v), ValorDoLabel(2, w)>> : v, w \in {"brancos", "texto"} }

\* the rows "Classe: ..." of the second approach
LinhasClasse == {<< >>, <<[chave |-> "classe", valor |-> <<"r", "1">>]>>}

LinhasPartesEproc == {<< >>, <<[th |-> FALSE, cols |-> <<<<"R">>, <<"N", "p">>>>]>>}
LinhasEventosEproc == {<< >>, <<[th |-> FALSE, cols |-> <<<<"3">>, <<"z">>, << >>>>]>>}

PaginasExtracaoEproc ==
    {EprocAviso, EprocLogin}
    \cup { [PaginaEproc(<< >>, FALSE, ls, ps, es) EXCEPT !.linhas = rs] :
             ls \in LabelsClasse, rs \in LinhasClasse,
             ps \in LinhasPartesEproc, es \in LinhasEventosEproc }

PaginasExtracao(t) == IF Portal(t) = "esaj" THEN PaginasExtracaoEsaj ELSE PaginasExtracaoEproc

InitExtract ==
    /\ numero = Numero20
    /\ \E t0 \in Leaves : \E pagina \in PaginasExtracao(t0) :
          /\ task = [t \in Tasks |->
                       IF t = t0
                       THEN [Fetching(1, MAX_RETRIES(Portal(t0))) EXCEPT !.pc = "text", !.val = Ok(pagina)]
                       ELSE Idle]
          /\ hist = << <<Ok(pagina)>> >>
    /\ ambos = [p \in {"esaj", "eproc"} |-> [pc |-> "idle", val |-> Null]]
    /\ resposta = Pendente
    /\ dadosDatajud = Null
    /\ dadosEsaj = Null
    /\ dadosEproc = Null
    /\ unificado = Null
    /\ antes = << >>

NextExtract == AdapterReadPage

SpecExtract == InitExtract /\ [][NextExtract]_vars

\* the page the parser was given, and the record it returned
PaginaLida == hist[1][1].body
Registro == task[Ativo].val
Extraiu == task[Ativo].pc = "fulfilled" /\ Registro.t = "rec"

\* C14 (as stated): neither parser returns a record whose fields are all
\* empty and whose party and movement lists are both empty; such a page gives
\* no record.
C14_NoEmptyRecord == Extraiu => Contribuiu(Registro)

\* the texts the candidates for the class give on the page, in the order the
\* parser lists them, each after white-space normalization
CandidatosClasse ==
    IF Portal(Ativo) = "esaj"
    THEN [k \in 1..3 |-> limpar(Texto(PaginaLida, SeletoresClasse[k]))]
    ELSE [k \in 1..Len(PaginaLida.labels) |-> limpar(PaginaLida.labels[k].valor)]
         \o [k \in 1..Len(PaginaLida.linhas) |-> limpar(PaginaLida.linhas[k].valor)]

\* C19 (as stated): the class of the record is the text of the first candidate,
\* in the fixed order, whose normalized text is non-empty: a candidate with
\* only white space is passed over, and a later candidate never replaces an
\* earlier one that gave text.
C19_FirstNonEmptyCandidate == Extraiu => Registro.classe = PrimeiroValor(CandidatosClasse)

----------------------------------------------------------------------------
(* SpecNumero: an identifier as typed, and one adapter called with it, up to
   its first await. *)

\* twenty digits that differ in the first digit, the segment J and the last digit
Digitos20 ==
    { <<a>> \o <<"8", "0", "0", "1", "2", "3", "4", "5", "2", "0", "2", "3">> \o <<j>>
      \o <<"1", "2", "0", "0", "0">> \o <<z>> : a \in {"0", "1", "9"}, j \in {"8", "4"}, z \in {"1", "0"} }

\* the same digits as they may be typed
Estilos(d) ==
    {d,
     SubSeq(d, 1, 7) \o <<"-">> \o SubSeq(d, 8, 9) \o <<".">> \o SubSeq(d, 10, 13) \o <<".">>
       \o SubSeq(d, 14, 14) \o <<".">> \o SubSeq(d, 15, 16) \o <<".">> \o SubSeq(d, 17, 20),
     <<" ">> \o SubSeq(d, 1, 9) \o <<"/">> \o SubSeq(d, 10, 13) \o <<" ">> \o SubSeq(d, 14, 20) \o <<"\n">>,
     <<"n", ".", " ">> \o SubSeq(d, 1, 7) \o <<"-">> \o SubSeq(d, 8, 20)}

\* too few or too many digits
ForaDoTamanho(d) ==
    {SubSeq(d, 1, n) : n \in {0, 9, 10, 19}}
    \cup {d \o <<"7">>, SubSeq(d, 1, 7) \o <<"-">> \o SubSeq(d, 8, 9) \o <<".">> \o SubSeq(d, 10, 11),
          <<"a", "b", "c">>}

EntradasNumero == UNION {Estilos(d) \cup ForaDoTamanho(d) : d \in Digitos20}

InitNumero ==
    /\ numero \in EntradasNumero
    /\ task = [t \in Tasks |-> Idle]
    /\ hist = << >>
    /\ ambos = [p \in {"esaj", "eproc"} |-> [pc |-> "idle", val |-> Null]]
    /\ resposta = Pendente
    /\ dadosDatajud = Null
    /\ dadosEsaj = Null
    /\ dadosEproc = Null
    /\ unificado = Null
    /\ antes = << >>

\* one adapter is called with the identifier and runs up to its first await
Chamar ==
    \E t \in Adapters :
        /\ \A u \in Tasks : task[u].pc = "idle"
        /\ task' = [task EXCEPT ![t] = Inicio(t, numero)]
        /\ hist' = IF Inicio(t, numero).pc = "fetch" THEN << << >> >> ELSE << >>
        /\ UNCHANGED SemHist

NextNumero == Chamar

SpecNumero == InitNumero /\ [][NextNumero]_vars

Chamado == \E t \in Leaves : task[t].pc # "idle"
Vinte == Len(SoDigitos(numero)) = 20
Canonico == parseNumeroCNJ(numero).completo

\* C15: an identifier with exactly 20 digits is normalized by both portals,
\* and normalizing the dashed form so produced gives the same segments and the
\* same dashed form again.
C15_RoundTrip ==
    Vinte =>
      /\ parseNumeroCNJ(numero).t = "cnj"
      /\ formatarNumeroEproc(numero).t = "formatado"
      /\ Len(Canonico) = 25
      /\ SoDigitos(Canonico) = SoDigitos(numero)
      /\ parseNumeroCNJ(Canonico) = parseNumeroCNJ(numero)
      /\ formatarNumeroEproc(Canonico) = formatarNumeroEproc(numero)
      /\ formatarNumeroEproc(numero).completo = Canonico
      /\ formatarNumeroEproc(formatarNumeroEproc(numero).completo) = formatarNumeroEproc(numero)
      /\ Chamado => task[Ativo].pc = "fetch"

\* 20 digits typed with blanks and a slash: the adapter called with them has
\* normalized them and waits for its first fetch
C15_Witness ==
    /\ Vinte
    /\ numero # Canonico /\ numero # SoDigitos(numero)
    /\ Chamado /\ task[Ativo].pc = "fetch"
    /\ parseNumeroCNJ(Canonico).completo = Canonico

ErroInvalido(e) == e.t = "error" /\ e.name = "Error" /\ Includes(e.message, "invalido:")

\* C16: an identifier whose digit count is not 20 makes normalization fail
\* with the invalid-identifier error, and a portal adapter called with it
\* rejects with that error without a fetch: no attempt is logged, none is
\* pending, and the failure is not turned into a null result.
C16_InvalidFailsFirst ==
    ~Vinte =>
      /\ ErroInvalido(parseNumeroCNJ(numero))
      /\ ErroInvalido(formatarNumeroEproc(numero))
      /\ Chamado =>
           /\ task[Ativo].pc = "rejected"
           /\ ErroInvalido(task[Ativo].val)
           /\ hist = << >>
           /\ ~ENABLED NextAdapter

\* the eproc first-instance adapter called with 19 digits has rejected
C16_Witness ==
    /\ Len(SoDigitos(numero)) = 19
    /\ task["eproc1g"].pc = "rejected"
    /\ ErroInvalido(task["eproc1g"].val)
    /\ hist = << >>

----------------------------------------------------------------------------
(* The unified query: what it accepts, and the budget of the DataJud call (Spec) *)

\* C17 (as stated): a unified query whose identifier does not have exactly 20
\* digits is refused at once: no source call is ever started for it and the
\* only answer it gets is the 400 of the validation.
C17_OnlyTwentyDigits ==
    Len(SoDigitos(numero)) # 20 =>
      /\ \A t \in Sources : task[t].pc = "idle"
      /\ resposta # Pendente => resposta.status = 400

\* C18 (as stated): the DataJud call is retried within a budget larger than
\* that of the portal calls: it gives up only on an attempt beyond the three
\* that the eSAJ calls are allowed.
C18_ApiBudgetLargest ==
    [][(task["datajud"].pc = "fetch" /\ task["datajud"]'.pc = "rejected")
         => task["datajud"].i + 1 > MAX_RETRIES_ESAJ]_vars

----------------------------------------------------------------------------
(* What the merge leaves of its inputs (SpecMerge) *)

\* C20 (as stated): after the merge the DataJud result and the two portal
\* results are what they were before it, the order of the movements of the
\* first hit included.
C20_InputsUnchanged ==
    Unido =>
      /\ dadosDatajud = antes[1]
      /\ dadosEsaj = antes[2]
      /\ dadosEproc = antes[3]

====
